---- MODULE Spec2Model ----
(***************************************************************************)
(* SumStack (src/src/App.tsx): the grid / selection / scoring / timer      *)
(* state machine of the App component, with the tip service as an          *)
(* external collaborator.  Events (clicks, interval ticks, promise         *)
(* resolutions) are processed one at a time; each action is one handler    *)
(* together with the re-render and the effect run it causes.               *)
(***************************************************************************)
EXTENDS Integers, Sequences, FiniteSets, TLC

\* ---- program constants (App.tsx:24-29) ----
ROWS == 10
COLS == 6
INITIAL_ROWS == 4
TARGET_MIN == 10
TARGET_MAX == 30
TIME_LIMIT == 15

\* ---- bounds of the model ----
\* number of Block ids that may be handed out (generateId calls) ...
MaxId == 84
\* ... of which row insertions may use the first MaxRowId
MaxRowId == 60
\* the Score up to which clears are followed in time mode, where nothing else
\* bounds it (in classic mode every clear inserts a row, so the grid does)
MaxTimeScore == 10
\* tip requests that may be in flight at once
MaxTipPending == 1

VARIABLES
    gameState,   \* 'start' | 'playing' | 'gameover'      (App.tsx:51)
    mode,        \* 'classic' | 'time'                    (App.tsx:52)
    grid,        \* GridData, [] after construction       (App.tsx:53)
    target,      \* App.tsx:54
    score,       \* App.tsx:55
    selected,    \* Position[] in click order             (App.tsx:56)
    timeLeft,    \* App.tsx:57
    isPaused,    \* App.tsx:58
    tip,         \* App.tsx:59
    highScore,   \* App.tsx:60
    timerRef,    \* timerRef.current, 0 for null          (App.tsx:62)
    timers,      \* handles of the intervals that are live
    tipPending,  \* getGameTips promises not yet settled
    nextId,      \* ids handed out so far + 1
    lastOp       \* what the last event did: "tick", a click that was "ignored",
                 \* an "overshoot" or a "success", a "retry" (initGame from
                 \* the game-over modal), or "other"

vars == <<gameState, mode, grid, target, score, selected, timeLeft, isPaused,
          tip, highScore, timerRef, timers, tipPending, nextId, lastOp>>

RowIdx == 0..(ROWS - 1)
ColIdx == 0..(COLS - 1)

\* an empty cell (null); `cell?.value || 0` reads 0 from it
Null == [id |-> 0, value |-> 0]

\* the fallback string of getGameTips
FALLBACK_TIP == "Keep summing! You're doing great."
\* a text generated by the service
GENERATED_TIP == "generated"

\* ---- the outcomes of Math.random() that the model explores ----
\* floor(Math.random() * 9) for the COLS blocks of one row: the rows created
\* one after the other take these outcomes in turn
RowDraws ==
    << <<1, 7, 8, 4, 4, 2>>,
       <<7, 1, 8, 0, 6, 5>> >>

\* the draw for column c of the row whose first block gets id id0
RandomRowDraw(id0, c) == RowDraws[(((id0 - 1) \div COLS) % Len(RowDraws)) + 1][c + 1]

\* floor(Math.random() * (TARGET_MAX - TARGET_MIN + 1))
TargetDraws == {0}

\* createRandomBlock with the id and the draw made explicit
createRandomBlock(id, draw) == [id |-> id, value |-> draw + 1]

\* faulty variant: the last cell of the row is left empty
NewRow_LastCellEmpty(id0) ==
    [c \in ColIdx |->
        IF c < COLS - 1 THEN createRandomBlock(id0 + c, RandomRowDraw(id0, c)) ELSE Null]

\* Array(COLS).fill(null).map(() => createRandomBlock())
NewRow(id0) == [c \in ColIdx |-> createRandomBlock(id0 + c, RandomRowDraw(id0, c))]

EmptyRow == [c \in ColIdx |-> Null]

\* every value floor(Math.random() * (TARGET_MAX - TARGET_MIN + 1)) can take
AllTargetDraws == 0..(TARGET_MAX - TARGET_MIN)

\* faulty variant: TARGET_MIN is not added
RandomTarget_NoOffset(draw) == draw

\* Math.floor(Math.random() * (TARGET_MAX - TARGET_MIN + 1)) + TARGET_MIN
RandomTarget(draw) == draw + TARGET_MIN

\* ---- the timer effect (App.tsx:114-131) ----
\* setInterval hands out a handle that names no live interval
SetInterval(tm) == CHOOSE h \in 1..(Cardinality(tm) + 1) : h \notin tm

\* clearInterval(handle); clearing null or a dead handle does nothing
ClearInterval(tm, handle) == tm \ {handle}

\* the cleanup returned by the previous run of the effect (lines 128-130)
EffectCleanup(ref, tm) == IF ref # 0 THEN ClearInterval(tm, ref) ELSE tm

\* faulty variant: the pause flag is not looked at
TimerWanted_IgnoringPause(gs, m, p) == gs = "playing" /\ m = "time"

\* faulty variant: the game state is not looked at
TimerWanted_IgnoringGameState(gs, m, p) == m = "time" /\ ~p

\* the condition under which the effect starts an interval (line 115)
TimerWanted(gs, m, p) == gs = "playing" /\ m = "time" /\ ~p

\* the body of the effect (lines 115-127), run on the timers left by the cleanup
EffectBody(gs, m, p, ref, tm) ==
    IF TimerWanted(gs, m, p)
    THEN LET h == SetInterval(tm) IN [ref |-> h, timers |-> tm \cup {h}]
    ELSE [ref |-> ref, timers |-> IF ref # 0 THEN ClearInterval(tm, ref) ELSE tm]

\* the commit after a handler: the effect re-runs iff one of its dependencies
\* [gameState, mode, isPaused] changed (addRow is a stable callback)
Commit(gs, m, p) ==
    /\ gameState' = gs
    /\ mode' = m
    /\ isPaused' = p
    /\ IF <<gs, m, p>> = <<gameState, mode, isPaused>>
       THEN UNCHANGED <<timerRef, timers>>
       ELSE LET e == EffectBody(gs, m, p, timerRef, EffectCleanup(timerRef, timers))
            IN  /\ timerRef' = e.ref
                /\ timers' = e.timers

\* ---- addRow (App.tsx:93-111), as the updater it passes to setGrid ----
TopRowOccupied(prev) == \E c \in ColIdx : prev[0][c] # Null

\* faulty variant: the new row overwrites the bottom row, nothing moves up
ShiftUp_NoShift(prev, bottom) ==
    [r \in RowIdx |-> IF r < ROWS - 1 THEN prev[r] ELSE bottom]

\* faulty variant: the bottom row is copied up and kept, the new row is dropped
ShiftUp_KeepBottom(prev, bottom) ==
    [r \in RowIdx |-> IF r < ROWS - 1 THEN prev[r + 1] ELSE prev[ROWS - 1]]

ShiftUp(prev, bottom) ==
    [r \in RowIdx |-> IF r < ROWS - 1 THEN prev[r + 1] ELSE bottom]

\* faulty variant: the top row is checked but the game is not ended
addRow_NoGameOver(prev, id0) ==
    IF TopRowOccupied(prev)
    THEN [grid |-> prev, over |-> FALSE, made |-> 0]
    ELSE [grid |-> ShiftUp(prev, NewRow(id0)), over |-> FALSE, made |-> COLS]

\* over: the updater called setGameState('gameover'); made: blocks created
addRow(prev, id0) ==
    IF TopRowOccupied(prev)
    THEN [grid |-> prev, over |-> TRUE, made |-> 0]
    ELSE [grid |-> ShiftUp(prev, NewRow(id0)), over |-> FALSE, made |-> COLS]

\* ---- initGame (App.tsx:65-85) ----
\* faulty variant: the loop stops one row early
InitialGrid_OneRowShort(id0) ==
    [r \in RowIdx |->
        IF r > ROWS - INITIAL_ROWS
        THEN NewRow(id0 + (ROWS - 1 - r) * COLS)
        ELSE EmptyRow]

\* rows are filled from the bottom up, so row ROWS-1 takes the first ids
InitialGrid(id0) ==
    [r \in RowIdx |->
        IF r >= ROWS - INITIAL_ROWS
        THEN NewRow(id0 + (ROWS - 1 - r) * COLS)
        ELSE EmptyRow]

initGame(selectedMode) ==
    /\ \/ gameState = "start"                              \* lines 233, 244
       \/ gameState = "gameover" /\ selectedMode = mode    \* line 446
    /\ nextId + INITIAL_ROWS * COLS - 1 <= MaxId
    /\ tipPending < MaxTipPending
    /\ grid' = InitialGrid(nextId)
    /\ \E draw \in TargetDraws : target' = RandomTarget(draw)
    /\ nextId' = nextId + INITIAL_ROWS * COLS
    /\ score' = 0
    /\ selected' = <<>>
    /\ timeLeft' = TIME_LIMIT
    /\ Commit("playing", selectedMode, FALSE)
    /\ tipPending' = tipPending + 1                        \* fetchTip(0, selectedMode)
    /\ lastOp' = IF gameState = "gameover" THEN "retry" ELSE "other"
    /\ UNCHANGED <<tip, highScore>>

\* ---- handleSuccess (App.tsx:160-209) ----
Pos(r, c) == [row |-> r, col |-> c]

InSeq(seq, x) == \E i \in 1..Len(seq) : seq[i] = x

\* positions.forEach(p => newGrid[p.row][p.col] = null)   (lines 177-179)
RemoveBlocks(g, positions) ==
    [r \in RowIdx |-> [c \in ColIdx |->
        IF InSeq(positions, Pos(r, c)) THEN Null ELSE g[r][c]]]

\* faulty variant: the cell a block falls from is not emptied
RECURSIVE GravityColumn_NoClear(_, _, _, _)
GravityColumn_NoClear(g, c, r, emptyRow) ==
    IF r < 0 THEN g
    ELSE IF g[r][c] # Null
         THEN LET temp == g[r][c]
                  g2 == [g EXCEPT ![emptyRow][c] = temp]
              IN  GravityColumn_NoClear(g2, c, r - 1, emptyRow - 1)
         ELSE GravityColumn_NoClear(g, c, r - 1, emptyRow)

\* the inner loop of the gravity pass for column c, from row r upward, with
\* emptyRow the lowest row not yet filled (lines 184-191)
RECURSIVE GravityColumn(_, _, _, _)
GravityColumn(g, c, r, emptyRow) ==
    IF r < 0 THEN g
    ELSE IF g[r][c] # Null
         THEN LET temp == g[r][c]
                  g1 == [g EXCEPT ![r][c] = Null]
                  g2 == [g1 EXCEPT ![emptyRow][c] = temp]
              IN  GravityColumn(g2, c, r - 1, emptyRow - 1)
         ELSE GravityColumn(g, c, r - 1, emptyRow)

\* faulty variant: the gravity pass is left out
Gravity_Skipped(g, c) == g

\* the outer loop over the columns (line 182)
RECURSIVE Gravity(_, _)
Gravity(g, c) ==
    IF c >= COLS THEN g
    ELSE Gravity(GravityColumn(g, c, ROWS - 1, ROWS - 1), c + 1)

\* the updater of lines 174-194
ClearAndCompact(prev, positions) == Gravity(RemoveBlocks(prev, positions), 0)

\* setScore's updater (lines 168-172): the new score and the new high score
NewScore(prev) == prev + target

\* faulty variant: the high score follows the score down
NewHighScore_Overwrite(newScore) == newScore

\* faulty variant: the high score is never raised
NewHighScore_NeverRaised(newScore) == highScore

NewHighScore(newScore) == IF newScore > highScore THEN newScore ELSE highScore

\* faulty variant: the countdown is not reset
SuccessTimeLeft_NoReset(m) == timeLeft

\* the mode-dependent tail (lines 199-203): TimeLeft after a clear
SuccessTimeLeft(m) == IF m = "classic" THEN timeLeft ELSE TIME_LIMIT

handleSuccess(positions) ==
    \E draw \in TargetDraws, refresh \in BOOLEAN :
        LET cleared == ClearAndCompact(grid, positions)
            added   == addRow(cleared, nextId)
        IN  /\ refresh => tipPending < MaxTipPending
            /\ score' = NewScore(score)
            /\ highScore' = NewHighScore(NewScore(score))
            /\ selected' = <<>>
            /\ target' = RandomTarget(draw)
            /\ IF mode = "classic"
               THEN /\ nextId + added.made - 1 <= MaxRowId
                    /\ grid' = added.grid
                    /\ nextId' = nextId + added.made
                    /\ Commit(IF added.over THEN "gameover" ELSE gameState, mode, isPaused)
               ELSE /\ NewScore(score) <= MaxTimeScore
                    /\ grid' = cleared
                    /\ Commit(gameState, mode, isPaused)
                    /\ UNCHANGED nextId
            /\ timeLeft' = SuccessTimeLeft(mode)
            /\ tipPending' = IF refresh THEN tipPending + 1 ELSE tipPending
            /\ lastOp' = "success"
            /\ UNCHANGED tip

\* ---- handleBlockClick (App.tsx:133-158) ----
Toggle(sel, row, col) ==
    IF InSeq(sel, Pos(row, col))
    THEN SelectSeq(sel, LAMBDA p : p # Pos(row, col))
    ELSE Append(sel, Pos(row, col))

RECURSIVE SumValues(_, _)
SumValues(g, sel) ==
    IF sel = <<>> THEN 0
    ELSE g[Head(sel).row][Head(sel).col].value + SumValues(g, Tail(sel))

\* faulty variant: an overshooting selection is kept
SelectionAfterClick_KeepOvershoot(newSelected, currentSum) == newSelected

\* lines 152-157: the selection kept when the sum is not the target
SelectionAfterClick(newSelected, currentSum) ==
    IF currentSum > target THEN <<>> ELSE newSelected

\* faulty variant: the pause flag is not looked at
ClickIgnored_WhilePausedTaken(row, col) ==
    \/ gameState # "playing"
    \/ grid[row][col] = Null

\* faulty variant: a click on an empty cell is taken
ClickIgnored_EmptyCellTaken(row, col) ==
    \/ gameState # "playing"
    \/ isPaused

\* the two early returns of lines 134-136
ClickIgnored(row, col) ==
    \/ gameState # "playing"
    \/ isPaused
    \/ grid[row][col] = Null

\* the cells the player's clicks are drawn from
ClickRows == {0, ROWS - 1}
ClickCols == {0, 1, 2}

handleBlockClick(row, col) ==
    IF ClickIgnored(row, col)
    THEN /\ lastOp' = "ignored"
         /\ UNCHANGED <<gameState, mode, grid, target, score, selected, timeLeft,
                        isPaused, tip, highScore, timerRef, timers, tipPending, nextId>>
    ELSE LET newSelected == Toggle(selected, row, col)
             currentSum  == SumValues(grid, newSelected)
         IN  IF currentSum = target
             THEN handleSuccess(newSelected)
             ELSE /\ selected' = SelectionAfterClick(newSelected, currentSum)
                  /\ lastOp' = IF currentSum > target THEN "overshoot" ELSE "other"
                  /\ UNCHANGED <<gameState, mode, grid, target, score, timeLeft,
                                 isPaused, tip, highScore, timerRef, timers,
                                 tipPending, nextId>>

\* ---- the interval callback (App.tsx:116-124) ----
\* faulty variant: the countdown is let down to 0
CountdownExpired_AtZero(prev) == prev <= 0

\* the test of setTimeLeft's updater (line 118)
CountdownExpired(prev) == prev <= 1

\* it runs for every live interval, whatever the state of the game
Tick ==
    \E h \in timers :
        /\ IF CountdownExpired(timeLeft)
           THEN LET added == addRow(grid, nextId)
                IN  /\ nextId + added.made - 1 <= MaxRowId
                    /\ grid' = added.grid
                    /\ nextId' = nextId + added.made
                    /\ timeLeft' = TIME_LIMIT
                    /\ Commit(IF added.over THEN "gameover" ELSE gameState, mode, isPaused)
           ELSE /\ timeLeft' = timeLeft - 1
                /\ Commit(gameState, mode, isPaused)
                /\ UNCHANGED <<grid, nextId>>
        /\ lastOp' = "tick"
        /\ UNCHANGED <<target, score, selected, tip, highScore, tipPending>>

\* ---- the buttons of the game screen ----
\* header pause button: setIsPaused(!isPaused)   (App.tsx:286)
togglePause ==
    /\ gameState # "start"
    /\ Commit(gameState, mode, ~isPaused)
    /\ lastOp' = "other"
    /\ UNCHANGED <<grid, target, score, selected, timeLeft, tip, highScore,
                   tipPending, nextId>>

\* pause overlay button: setIsPaused(false)   (App.tsx:390)
resumeGame ==
    /\ gameState # "start"
    /\ isPaused
    /\ Commit(gameState, mode, FALSE)
    /\ lastOp' = "other"
    /\ UNCHANGED <<grid, target, score, selected, timeLeft, tip, highScore,
                   tipPending, nextId>>

\* header back button and game-over menu button: setGameState('start')
\* (App.tsx:269, 452)
backToStart ==
    /\ gameState # "start"
    /\ Commit("start", mode, isPaused)
    /\ lastOp' = "other"
    /\ UNCHANGED <<grid, target, score, selected, timeLeft, tip, highScore,
                   tipPending, nextId>>

\* ---- the tip service (part_001:5-19, App.tsx:87-90) ----
UNDEFINED == "undefined"

TipOutcomes == {"text", "no-text", "error"}

\* faulty variant: a failed call resolves to no text instead of the fallback
getGameTips_NoFallback(outcome) ==
    CASE outcome = "text"    -> GENERATED_TIP
      [] outcome = "no-text" -> UNDEFINED
      [] outcome = "error"   -> UNDEFINED

\* what the promise of getGameTips resolves to
getGameTips(outcome) ==
    CASE outcome = "text"    -> GENERATED_TIP
      [] outcome = "no-text" -> UNDEFINED
      [] outcome = "error"   -> FALLBACK_TIP

\* the continuation of fetchTip after the await: setTip(newTip || "")
fetchTipResolved ==
    /\ tipPending > 0
    /\ \E outcome \in TipOutcomes :
          LET newTip == getGameTips(outcome)
          IN  tip' = IF newTip = UNDEFINED THEN "" ELSE newTip
    /\ tipPending' = tipPending - 1
    /\ lastOp' = "other"
    /\ UNCHANGED <<gameState, mode, grid, target, score, selected, timeLeft,
                   isPaused, highScore, timerRef, timers, nextId>>

\* ---- the component after its first render ----
Init ==
    /\ gameState = "start"
    /\ mode = "classic"
    /\ grid = <<>>
    /\ target = 0
    /\ score = 0
    /\ selected = <<>>
    /\ timeLeft = TIME_LIMIT
    /\ isPaused = FALSE
    /\ tip = ""
    /\ highScore = 0
    /\ timerRef = 0
    /\ timers = {}
    /\ tipPending = 0
    /\ nextId = 1
    /\ lastOp = "other"

Click == \E row \in ClickRows, col \in ClickCols : handleBlockClick(row, col)

StartGame == \E m \in {"classic", "time"} : initGame(m)

Next ==
    \/ StartGame
    \/ Click
    \/ Tick
    \/ togglePause
    \/ resumeGame
    \/ backToStart
    \/ fetchTipResolved

Spec == Init /\ [][Next]_vars

\* ======================================================================
\* Properties
\* ======================================================================

\* a click on (row, col) that handleBlockClick does not ignore
ClickTaken(row, col) ==
    /\ gameState = "playing"
    /\ ~isPaused
    /\ grid[row][col] # Null

\* the selection with (row, col) toggled, and the sum of its values
Toggled(row, col) == Toggle(selected, row, col)

ToggledSum(row, col) == SumValues(grid, Toggled(row, col))

\* this step is a successful clear made by a click on (row, col)
ClearStep(row, col) ==
    /\ ClickTaken(row, col)
    /\ ToggledSum(row, col) = target
    /\ handleBlockClick(row, col)

\* this step is the tick on which the countdown expires
ExpiryStep == Tick /\ timeLeft <= 1

BlockIds(g) ==
    {g[r][c].id : r \in DOMAIN g, c \in ColIdx} \ {0}

\* row is a full row of Blocks with values 1..9 and pairwise distinct ids, none
\* of which is in the grid g
FreshFullRow(row, g) ==
    /\ \A c \in ColIdx : row[c] # Null /\ row[c].value \in 1..9
    /\ \A c \in ColIdx : row[c].id \notin BlockIds(g)
    /\ \A c, d \in ColIdx : c # d => row[c].id # row[d].id

\* after is before shifted up by one row, with a fresh full bottom row
ShiftedWithNewRow(before, after) ==
    /\ \A r \in 0..(ROWS - 2) : after[r] = before[r + 1]
    /\ FreshFullRow(after[ROWS - 1], before)

Max(a, b) == IF a >= b THEN a ELSE b

\* C1: addRow invoked when row 0 holds a non-empty cell sets GameState to
\* gameover and leaves the grid as it was before the addRow: on the expiry
\* tick that is the grid itself, after a classic clear it is the grid already
\* cleared and compacted.
C1_AddRowTopOccupied ==
    [][ /\ (ExpiryStep /\ TopRowOccupied(grid))
            => (gameState' = "gameover" /\ grid' = grid)
        /\ \A row \in ClickRows, col \in ClickCols :
            (/\ ClearStep(row, col)
             /\ mode = "classic"
             /\ TopRowOccupied(ClearAndCompact(grid, Toggled(row, col))))
            => (/\ gameState' = "gameover"
                /\ grid' = ClearAndCompact(grid, Toggled(row, col)))
      ]_vars

\* an expiry tick has just found row 0 occupied
C1_Witness ==
    /\ lastOp = "tick"
    /\ gameState = "gameover"
    /\ TopRowOccupied(grid)

\* C2: every successful clear adds the Target to the Score, and HighScore
\* becomes the larger of the old HighScore and the new Score.
C2_ScoreAndHighScore ==
    [][ \A row \in ClickRows, col \in ClickCols :
            ClearStep(row, col)
            => (/\ score' = score + target
                /\ highScore' = Max(highScore, score'))
      ]_vars

\* a clear has just happened that left the older HighScore in place
C2_Witness ==
    /\ lastOp = "success"
    /\ score > 0
    /\ highScore > score

\* this step is a successful clear
AnyClearStep == \E row \in ClickRows, col \in ClickCols : ClearStep(row, col)

\* C3: in classic mode a successful clear is followed, in the same step, by
\* one addRow on the grid already cleared and compacted: that grid is shifted
\* up one row under a fresh full bottom row, or its row 0 is occupied and
\* GameState becomes gameover; no other event of a classic game changes the
\* grid, so none inserts a row.
C3_ClassicClearAddsRow ==
    [][ (mode = "classic" /\ gameState = "playing")
        => /\ \A row \in ClickRows, col \in ClickCols :
                ClearStep(row, col)
                => LET compacted == ClearAndCompact(grid, Toggled(row, col))
                   IN  \/ /\ ~TopRowOccupied(compacted)
                          /\ ShiftedWithNewRow(compacted, grid')
                          /\ gameState' = "playing"
                       \/ /\ TopRowOccupied(compacted)
                          /\ grid' = compacted
                          /\ gameState' = "gameover"
           /\ ~AnyClearStep => grid' = grid
      ]_vars

\* a classic clear has just run into an occupied row 0
C3_Witness ==
    /\ lastOp = "success"
    /\ mode = "classic"
    /\ gameState = "gameover"
    /\ TopRowOccupied(grid)

\* C4 as stated: a tick with TimeLeft > 1 only decrements TimeLeft; the tick
\* on which the countdown expires shifts all rows up by one under one new
\* bottom row and sets TimeLeft to TIME_LIMIT.
C4_ExpiryAlwaysInsertsRow ==
    [][ Tick
        => IF timeLeft > 1
           THEN /\ timeLeft' = timeLeft - 1
                /\ UNCHANGED <<gameState, mode, grid, target, score, selected,
                               isPaused, tip, highScore>>
           ELSE /\ ShiftedWithNewRow(grid, grid')
                /\ timeLeft' = TIME_LIMIT
      ]_vars

\* C4 amended: a tick with TimeLeft > 1 only decrements TimeLeft; the tick on
\* which the countdown expires invokes addRow once (rows shifted up by one
\* under one new bottom row if row 0 is empty; gameover with the grid
\* unchanged if row 0 is occupied) and sets TimeLeft to TIME_LIMIT; TimeLeft
\* stays in 1..TIME_LIMIT, so that from TIME_LIMIT the expiry is the
\* TIME_LIMIT-th tick.
C4_TickCountdown ==
    [][ Tick
        => /\ timeLeft \in 1..TIME_LIMIT
           /\ IF timeLeft > 1
              THEN /\ timeLeft' = timeLeft - 1
                   /\ UNCHANGED <<gameState, mode, grid, target, score, selected,
                                  isPaused, tip, highScore>>
              ELSE /\ timeLeft' = TIME_LIMIT
                   /\ UNCHANGED <<mode, target, score, selected, isPaused, tip,
                                  highScore>>
                   /\ \/ /\ ~TopRowOccupied(grid)
                         /\ ShiftedWithNewRow(grid, grid')
                         /\ gameState' = gameState
                      \/ /\ TopRowOccupied(grid)
                         /\ grid' = grid
                         /\ gameState' = "gameover"
      ]_vars

\* the countdown has just expired and a row was inserted
C4_Witness ==
    /\ lastOp = "tick"
    /\ gameState = "playing"
    /\ mode = "time"
    /\ timeLeft = TIME_LIMIT
    /\ grid[ROWS - INITIAL_ROWS - 1][0] # Null

NumBlocks(g) == Cardinality({<<r, c>> \in RowIdx \X ColIdx : g[r][c] # Null})

\* C5: in time mode a successful clear sets TimeLeft to TIME_LIMIT and does
\* not invoke addRow: the grid afterwards is the compacted grid, no row is
\* inserted, and GameState stays playing.
C5_TimeClearResetsCountdown ==
    [][ \A row \in ClickRows, col \in ClickCols :
            (ClearStep(row, col) /\ mode = "time")
            => (/\ timeLeft' = TIME_LIMIT
                /\ grid' = ClearAndCompact(grid, Toggled(row, col))
                /\ NumBlocks(grid') = NumBlocks(grid) - Len(Toggled(row, col))
                /\ BlockIds(grid') \subseteq BlockIds(grid)
                /\ nextId' = nextId
                /\ gameState' = "playing")
      ]_vars

\* a clear has just happened in a time game
C5_Witness ==
    /\ lastOp = "success"
    /\ mode = "time"
    /\ gameState = "playing"
    /\ timeLeft = TIME_LIMIT
    /\ NumBlocks(grid) < INITIAL_ROWS * COLS

\* C6: the number of live countdown timers is 1 when GameState is playing,
\* the mode is time and the game is not paused, and 0 otherwise; so no tick
\* fires while paused, in classic mode, in start or in gameover.
C6_OneTimerWhileRunning ==
    /\ [](Cardinality(timers) =
             IF gameState = "playing" /\ mode = "time" /\ ~isPaused THEN 1 ELSE 0)
    /\ [][Tick => (gameState = "playing" /\ mode = "time" /\ ~isPaused)]_vars

\* a time game was paused after some ticks and its timer is gone
C6_Witness ==
    /\ gameState = "playing"
    /\ mode = "time"
    /\ isPaused
    /\ timeLeft < TIME_LIMIT
    /\ timers = {}

\* this step is initGame
InitGameStep == \E m \in {"classic", "time"} : initGame(m)

\* C7 as stated: GameState changes to gameover only from playing, and to
\* playing only from start.
C7_PlayingOnlyFromStart ==
    [][ /\ (gameState' = "gameover" /\ gameState # "gameover") => gameState = "playing"
        /\ (gameState' = "playing" /\ gameState # "playing") => gameState = "start"
      ]_vars

\* C7 amended: GameState changes to gameover only from playing, and to
\* playing only by initGame, from start or (retry) from gameover.
C7_GameStateTransitions ==
    [][ /\ (gameState' = "gameover" /\ gameState # "gameover") => gameState = "playing"
        /\ (gameState' = "playing" /\ gameState # "playing")
            => (gameState \in {"start", "gameover"} /\ InitGameStep)
      ]_vars

\* a game has just been restarted from the game-over modal
C7_Witness ==
    /\ lastOp = "retry"
    /\ gameState = "playing"

\* the Blocks of column c of g from top to bottom
RECURSIVE ColumnBlocks(_, _, _)
ColumnBlocks(g, c, r) ==
    IF r >= ROWS THEN <<>>
    ELSE IF g[r][c] = Null THEN ColumnBlocks(g, c, r + 1)
         ELSE <<g[r][c]>> \o ColumnBlocks(g, c, r + 1)

\* column c of g is packed at the bottom
PackedColumn(g, c) ==
    \A r \in RowIdx : g[r][c] # Null => \A q \in r..(ROWS - 1) : g[q][c] # Null

\* the grid the compaction of a clear left: the grid after the step, with the
\* row shift of a classic clear undone
GridAfterCompaction ==
    IF mode = "classic" /\ gameState' = "playing"
    THEN [r \in RowIdx |-> IF r = 0 THEN EmptyRow ELSE grid'[r - 1]]
    ELSE grid'

\* C8: after a clear every column holds, top to bottom, the Blocks it held
\* before without the cleared ones, in the same order and packed at the bottom
\* of that same column.
C8_GravityStable ==
    [][ \A row \in ClickRows, col \in ClickCols :
            ClearStep(row, col)
            => \A c \in ColIdx :
                  /\ ColumnBlocks(GridAfterCompaction, c, 0)
                       = ColumnBlocks(RemoveBlocks(grid, Toggled(row, col)), c, 0)
                  /\ PackedColumn(GridAfterCompaction, c)
      ]_vars

\* a clear of a time game has just let the Block with id COLS + 1, created in
\* the second row from the bottom, fall into the bottom row
C8_Witness ==
    /\ lastOp = "success"
    /\ mode = "time"
    /\ nextId = INITIAL_ROWS * COLS + 1
    /\ grid[ROWS - 1][0].id = COLS + 1
    /\ grid[ROWS - INITIAL_ROWS][0] = Null

\* C9: a click on a non-empty cell (playing, not paused) whose toggled
\* selection sums to more than Target empties Selection and changes nothing
\* of Score, HighScore, Target, grid, TimeLeft and GameState.
C9_OvershootClearsSelection ==
    [][ \A row \in ClickRows, col \in ClickCols :
            (/\ ClickTaken(row, col)
             /\ ToggledSum(row, col) > target
             /\ handleBlockClick(row, col))
            => (/\ selected' = <<>>
                /\ UNCHANGED <<score, highScore, target, grid, timeLeft, gameState>>)
      ]_vars

\* an overshooting click has just emptied Selection
C9_Witness ==
    /\ lastOp = "overshoot"
    /\ selected = <<>>
    /\ gameState = "playing"

\* C10: handleBlockClick(row, col) changes nothing when GameState is not
\* playing, or the game is paused, or the cell (row, col) is empty.
C10_IgnoredClickIsNoOp ==
    [][ \A row \in ClickRows, col \in ClickCols :
            (/\ (gameState # "playing" \/ isPaused \/ grid[row][col] = Null)
             /\ handleBlockClick(row, col))
            => UNCHANGED <<grid, selected, score, highScore, target, timeLeft,
                           gameState, mode, isPaused, tip>>
      ]_vars

\* a click has just been ignored in a paused game that has a selection
C10_Witness ==
    /\ lastOp = "ignored"
    /\ gameState = "playing"
    /\ isPaused
    /\ selected # <<>>

\* every Position of Selection names a cell that holds a Block
SelectionOnBlocks ==
    \A i \in 1..Len(selected) : grid[selected[i].row][selected[i].col] # Null

\* C11: in every reachable state every Position in Selection references a
\* non-empty grid cell; this also holds right after a row shift made by the
\* timer, after a gravity pass and after the transition to gameover.
C11_SelectionOnBlocks == SelectionOnBlocks

\* the expiry of the countdown has just ended a game in which a selection is
\* still held
C11_Witness ==
    /\ lastOp = "tick"
    /\ gameState = "gameover"
    /\ selected # <<>>
    /\ SelectionOnBlocks

\* the Block that the Position p names in the grid g
BlockAt(g, p) == g[p.row][p.col]

\* C12: whenever a step moves grid contents (addRow shifts the rows,
\* handleSuccess compacts the columns) Selection is empty before the step or
\* emptied by it, so that a Position that stays selected over a step names the
\* same Block (same id) after the step as before it.
C12_SelectionSameBlock ==
    [][ /\ (grid # <<>> /\ grid' # grid) => (selected = <<>> \/ selected' = <<>>)
        /\ \A i \in 1..Len(selected') :
              InSeq(selected, selected'[i])
              => BlockAt(grid', selected'[i]).id = BlockAt(grid, selected'[i]).id
      ]_vars

\* the expiry of the countdown has just shifted the rows of a game in which a
\* Block of the initial rows was selected: the selected Position now names a
\* Block that the shift brought into the bottom row
C12_Witness ==
    /\ lastOp = "tick"
    /\ gameState = "playing"
    /\ timeLeft = TIME_LIMIT
    /\ nextId = (INITIAL_ROWS + 1) * COLS + 1
    /\ selected = <<Pos(ROWS - 1, 0)>>
    /\ BlockAt(grid, Pos(ROWS - 1, 0)).id > INITIAL_ROWS * COLS

\* the ids of the cells of the rows lo..hi of g
RowIds(g, lo, hi) == {g[r][c].id : r \in lo..hi, c \in ColIdx}

\* C13: initGame(m), invoked in start or in gameover, yields Score = 0, an
\* empty Selection, a Target in [TARGET_MIN, TARGET_MAX], TimeLeft =
\* TIME_LIMIT, the bottom INITIAL_ROWS rows completely filled with fresh
\* Blocks of value 1..9 (pairwise distinct, none of them in the grid before),
\* all rows above completely empty, GameState = playing, not paused, Mode = m,
\* and the HighScore it found.
C13_InitGameResets ==
    [][ \A m \in {"classic", "time"} :
            (/\ gameState \in {"start", "gameover"}
             /\ gameState' = "playing"
             /\ initGame(m))
            => /\ score' = 0
               /\ selected' = <<>>
               /\ target' \in TARGET_MIN..TARGET_MAX
               /\ timeLeft' = TIME_LIMIT
               /\ \A r \in (ROWS - INITIAL_ROWS)..(ROWS - 1) : \A c \in ColIdx :
                      grid'[r][c] # Null /\ grid'[r][c].value \in 1..9
               /\ Cardinality(RowIds(grid', ROWS - INITIAL_ROWS, ROWS - 1))
                      = INITIAL_ROWS * COLS
               /\ RowIds(grid', ROWS - INITIAL_ROWS, ROWS - 1) \cap BlockIds(grid) = {}
               /\ \A r \in 0..(ROWS - INITIAL_ROWS - 1) : grid'[r] = EmptyRow
               /\ gameState' = "playing"
               /\ ~isPaused'
               /\ mode' = m
               /\ highScore' = highScore
      ]_vars

\* a game that ended with a Score was restarted from the game-over modal: the
\* Score is 0 again, the HighScore is the one of the game before, and Blocks
\* of the grid before are gone from the upper rows
C13_Witness ==
    /\ lastOp = "retry"
    /\ gameState = "playing"
    /\ score = 0
    /\ highScore > 0
    /\ grid[0] = EmptyRow
    /\ grid[ROWS - INITIAL_ROWS][0] # Null

\* after is what addRow makes of before when row 0 of before is empty: the
\* content of row r + 1 in row r, 6 fresh Blocks in the bottom row, no Block
\* of before lost, COLS Blocks more
RowAdded(before, after) ==
    /\ \A r \in 0..(ROWS - 2) : after[r] = before[r + 1]
    /\ \A c \in ColIdx : after[ROWS - 1][c] # Null
    /\ Cardinality(RowIds(after, ROWS - 1, ROWS - 1)) = COLS
    /\ RowIds(after, ROWS - 1, ROWS - 1) \cap BlockIds(before) = {}
    /\ BlockIds(before) \subseteq BlockIds(after)
    /\ NumBlocks(after) = NumBlocks(before) + COLS

\* C14: addRow invoked on a grid whose row 0 is entirely empty (by the expiry
\* tick on the grid, by a classic clear on the compacted grid) moves the
\* content of row r + 1 into row r for every r in 0..ROWS-2 and fills the
\* bottom row with COLS fresh Blocks that were not in the grid; no Block is
\* lost and the number of Blocks grows by exactly COLS.
C14_AddRowShifts ==
    [][ /\ (timeLeft <= 1 /\ ~TopRowOccupied(grid) /\ Tick) => RowAdded(grid, grid')
        /\ \A row \in ClickRows, col \in ClickCols :
            (/\ mode = "classic"
             /\ ClearStep(row, col)
             /\ ~TopRowOccupied(ClearAndCompact(grid, Toggled(row, col))))
            => RowAdded(ClearAndCompact(grid, Toggled(row, col)), grid')
      ]_vars

\* the expiry of the countdown has just moved the Blocks of row 1 into row 0
C14_Witness ==
    /\ lastOp = "tick"
    /\ gameState = "playing"
    /\ timeLeft = TIME_LIMIT
    /\ TopRowOccupied(grid)
    /\ NumBlocks(grid) > (ROWS - 1) * COLS

\* C15: whenever GameState is playing, Target is an integer in
\* [TARGET_MIN, TARGET_MAX], whatever Math.random() returned when it was
\* drawn; every successful clear draws a new Target in that range; and no
\* event other than initGame and a successful clear changes Target.
C15_TargetInRange ==
    /\ [](/\ gameState = "playing" => target \in TARGET_MIN..TARGET_MAX
          /\ TargetDraws \subseteq AllTargetDraws
          /\ \A draw \in AllTargetDraws : RandomTarget(draw) \in TARGET_MIN..TARGET_MAX)
    /\ [][ /\ target' \notin TARGET_MIN..TARGET_MAX => ~AnyClearStep
           /\ target' # target => (AnyClearStep \/ InitGameStep)
         ]_vars

\* a second clear of one game has just drawn its Target
C15_Witness ==
    /\ lastOp = "success"
    /\ gameState = "playing"
    /\ score >= 2 * TARGET_MIN
    /\ target \in TARGET_MIN..TARGET_MAX

\* C16: in every reachable state no Block (identified by its id) occupies two
\* grid cells, every created Block having received an id that no Block had
\* before; this holds across initGame, clears with gravity and row insertions.
C16_NoBlockTwice ==
    grid # <<>> => Cardinality(BlockIds(grid)) = NumBlocks(grid)

\* a time game has seen a clear with its gravity pass and then a row inserted
\* by the timer
C16_Witness ==
    /\ lastOp = "tick"
    /\ mode = "time"
    /\ gameState = "playing"
    /\ score > 0
    /\ timeLeft = TIME_LIMIT
    /\ NumBlocks(grid) = (INITIAL_ROWS + 1) * COLS - 2

PairCols == {0, 4}

ClickPair == \E col \in PairCols : handleBlockClick(ROWS - 1, col)

NextPair ==
    \/ StartGame
    \/ ClickPair
    \/ Tick
    \/ togglePause
    \/ resumeGame
    \/ backToStart
    \/ fetchTipResolved

SpecPair == Init /\ [][NextPair]_vars

\* C18: whenever GameState is playing, the values of the cells in Selection
\* sum to strictly less than Target, in classic and in time mode.
C18_SelectionBelowTarget ==
    gameState = "playing" => SumValues(grid, selected) < target

\* the timer has just shifted the rows under a selection of two cells, whose
\* values now sum to more than Target
C18_Witness ==
    /\ lastOp = "tick"
    /\ gameState = "playing"
    /\ timeLeft = TIME_LIMIT
    /\ Len(selected) = 2
    /\ SumValues(grid, selected) > target

\* C19: in every reachable state after the first initGame every column of the
\* grid is compact: no empty cell lies below a non-empty cell of the same
\* column; initGame, the gravity pass of handleSuccess and addRow preserve it.
C19_ColumnsCompact ==
    grid # <<>> => \A c \in ColIdx : PackedColumn(grid, c)

\* a classic clear has just removed two Blocks of the bottom row, let the
\* Blocks above them fall and inserted a row: two columns are one Block lower
\* than the others
C19_Witness ==
    /\ lastOp = "success"
    /\ mode = "classic"
    /\ gameState = "playing"
    /\ grid[ROWS - INITIAL_ROWS - 1][0] = Null
    /\ grid[ROWS - INITIAL_ROWS - 1][COLS - 1] # Null

\* ---- one time game under a timer that keeps firing ----
\* the first game of the session, started in time mode
TimeGame == nextId = 1 /\ initGame("time")

NextTimeGame ==
    \/ TimeGame
    \/ Click
    \/ Tick
    \/ togglePause
    \/ resumeGame
    \/ backToStart
    \/ fetchTipResolved

\* setInterval calls its callback every second for as long as the interval is
\* live: a tick that stays possible is taken
SpecFair == Init /\ [][NextTimeGame]_vars /\ WF_vars(Tick)

\* the rows inserted so far in the first game: every insertion takes COLS ids
RowsInserted == (nextId - 1 - INITIAL_ROWS * COLS) \div COLS

\* C20: in time mode, while the game stays playing and unpaused and no clear
\* succeeds, the ticks of the timer lead to gameover; in a game without a
\* clear the expiry that ends the game is exactly the 7th: the first
\* ROWS - INITIAL_ROWS = 6 expiries insert a row each, the next one finds row
\* 0 occupied.
C20_TimeGameEnds ==
    /\ (gameState = "playing" /\ mode = "time")
          ~> (gameState # "playing" \/ isPaused \/ lastOp = "success")
    /\ [][ (mode = "time" /\ score = 0 /\ timeLeft <= 1 /\ Tick)
           => /\ RowsInserted \in 0..(ROWS - INITIAL_ROWS)
              /\ gameState' = "gameover" <=> RowsInserted = ROWS - INITIAL_ROWS
              /\ gameState' = "playing" <=> RowsInserted < ROWS - INITIAL_ROWS
         ]_vars

\* the 7th expiry has just ended a time game in which nothing was cleared
C20_Witness ==
    /\ lastOp = "tick"
    /\ mode = "time"
    /\ gameState = "gameover"
    /\ score = 0
    /\ RowsInserted = ROWS - INITIAL_ROWS
    /\ timeLeft = TIME_LIMIT

\* C21: in every reachable state HighScore >= Score >= 0, and no event lowers
\* HighScore: not a clear, not initGame (which resets Score to 0), not the
\* return to the start screen.
C21_HighScoreBounds ==
    /\ [](highScore >= score /\ score >= 0)
    /\ [][highScore' >= highScore]_vars

\* the session is back on the start screen after a game that scored less
\* than an earlier one: HighScore is the earlier Score
C21_Witness ==
    /\ gameState = "start"
    /\ score > 0
    /\ highScore > score

====
